---------------------------- MODULE Spec2Model ----------------------------
(***************************************************************************)
(* Metadata extraction: two variants of one workflow.                      *)
(*   "script": app/backend/metadata_extraction.py (check_and_get_new_files *)
(*             then process_files, appending rows to a local text file)    *)
(*   "adls2" : app/backend/metadata_extraction_adls2.py (MetadataExtraction*)
(*             .run: run_extraction then reupload_metadata)                *)
(*                                                                         *)
(* Text is a sequence of tokens.  A token is one character (",", the quote,*)
(* the line feed, a blank) or a run of characters none of which is special *)
(* to the CSV dialect ("a", ".pdf", "Acme"); "\r\n" is the one token the   *)
(* csv writer ends a row with.  An optional value (Python's None) is the   *)
(* empty sequence, a present value v the one-element sequence <<v>>.       *)
(***************************************************************************)
EXTENDS Integers, Sequences, FiniteSets, TLC

COMMA == ","
QUOTE == "\""
LF    == "\n"
CRLF  == "\r\n"

None    == << >>
Some(v) == << v >>

RECURSIVE Concat(_)
Concat(ss) == IF ss = << >> THEN << >> ELSE Head(ss) \o Concat(Tail(ss))

RECURSIVE SeqToSet(_)
SeqToSet(s) == IF s = << >> THEN {} ELSE {Head(s)} \cup SeqToSet(Tail(s))

(***************************************************************************)
(* csv.reader, default dialect (delimiter ",", quotechar the double quote, *)
(* doublequote, not strict), over a text: the sequence of rows, each a     *)
(* sequence of fields.  st is the reader's state, field and row what it    *)
(* has gathered of the current field and record.                           *)
(***************************************************************************)
IsNewline(c) == c \in {LF, CRLF}

RECURSIVE CsvParse(_, _, _, _, _, _)
CsvParse(text, i, st, field, row, rows) ==
    IF i > Len(text)
    THEN IF st = "START_RECORD" THEN rows ELSE Append(rows, Append(row, field))
    ELSE LET c == text[i] IN
      CASE st = "START_RECORD" /\ IsNewline(c) ->
             CsvParse(text, i + 1, "START_RECORD", << >>, << >>, Append(rows, << >>))
        [] st \in {"START_RECORD", "START_FIELD"} /\ ~(st = "START_RECORD" /\ IsNewline(c)) ->
             IF IsNewline(c)
             THEN CsvParse(text, i + 1, "START_RECORD", << >>, << >>,
                           Append(rows, Append(row, << >>)))
             ELSE IF c = QUOTE
             THEN CsvParse(text, i + 1, "IN_QUOTED_FIELD", << >>, row, rows)
             ELSE IF c = COMMA
             THEN CsvParse(text, i + 1, "START_FIELD", << >>, Append(row, << >>), rows)
             ELSE CsvParse(text, i + 1, "IN_FIELD", << c >>, row, rows)
        [] st = "IN_FIELD" ->
             IF IsNewline(c)
             THEN CsvParse(text, i + 1, "START_RECORD", << >>, << >>,
                           Append(rows, Append(row, field)))
             ELSE IF c = COMMA
             THEN CsvParse(text, i + 1, "START_FIELD", << >>, Append(row, field), rows)
             ELSE CsvParse(text, i + 1, "IN_FIELD", Append(field, c), row, rows)
        [] st = "IN_QUOTED_FIELD" ->
             IF c = QUOTE
             THEN CsvParse(text, i + 1, "QUOTE_IN_QUOTED_FIELD", field, row, rows)
             ELSE CsvParse(text, i + 1, "IN_QUOTED_FIELD", Append(field, c), row, rows)
        [] st = "QUOTE_IN_QUOTED_FIELD" ->
             IF c = QUOTE
             THEN CsvParse(text, i + 1, "IN_QUOTED_FIELD", Append(field, c), row, rows)
             ELSE IF c = COMMA
             THEN CsvParse(text, i + 1, "START_FIELD", << >>, Append(row, field), rows)
             ELSE IF IsNewline(c)
             THEN CsvParse(text, i + 1, "START_RECORD", << >>, << >>,
                           Append(rows, Append(row, field)))
             ELSE CsvParse(text, i + 1, "IN_FIELD", Append(field, c), row, rows)

CsvReader(text) == CsvParse(text, 1, "START_RECORD", << >>, << >>, << >>)

(***************************************************************************)
(* csv.writer, default dialect (QUOTE_MINIMAL, line terminator "\r\n"): a  *)
(* field is quoted when it holds the delimiter, the quote or a line break, *)
(* its quotes doubled; None is written as the empty field.                 *)
(***************************************************************************)
RECURSIVE DoubleQuotes(_)
DoubleQuotes(s) ==
    IF s = << >> THEN << >>
    ELSE (IF Head(s) = QUOTE THEN << QUOTE, QUOTE >> ELSE << Head(s) >>)
         \o DoubleQuotes(Tail(s))

CsvWriteField(v) ==
    IF v = None THEN << >>
    ELSE LET s == v[1] IN
         IF \E i \in 1..Len(s) : s[i] \in {COMMA, QUOTE, LF, CRLF}
         THEN << QUOTE >> \o DoubleQuotes(s) \o << QUOTE >>
         ELSE s

RECURSIVE JoinWith(_, _)
JoinWith(sep, parts) ==
    IF parts = << >> THEN << >>
    ELSE IF Len(parts) = 1 THEN parts[1]
    ELSE parts[1] \o << sep >> \o JoinWith(sep, Tail(parts))

CsvWriteRow(values) ==
    JoinWith(COMMA, [i \in 1..Len(values) |-> CsvWriteField(values[i])]) \o << CRLF >>

(***************************************************************************)
(* Iterating a text file: its lines, each with the line feed that ends it. *)
(***************************************************************************)
RECURSIVE SplitLines(_, _, _)
SplitLines(text, cur, acc) ==
    IF text = << >>
    THEN IF cur = << >> THEN acc ELSE Append(acc, cur)
    ELSE IF Head(text) = LF
    THEN SplitLines(Tail(text), << >>, Append(acc, Append(cur, LF)))
    ELSE SplitLines(Tail(text), Append(cur, Head(text)), acc)

Lines(text) == SplitLines(text, << >>, << >>)

(***************************************************************************)
(* File names, and what the analysis service extracts from each document.  *)
(***************************************************************************)
FA == << "a", ".pdf" >>
FB == << "b", ".pdf" >>
FC == << "c", COMMA, "d", ".pdf" >>
FM == << "documents_metadata", ".txt" >>
NotFound == << "Not Found" >>

AllFiles == {FA, FB, FC, FM}

EndsWithPdf(name) == Len(name) > 0 /\ name[Len(name)] = ".pdf"

\* One entry of the service's "fields" mapping: its name and its value, a
\* mapping whose keys content, boundingRegions and confidence may be absent.
RawField(n, c, r, k) == [name |-> n, content |-> c, boundingRegions |-> r, confidence |-> k]
Region(p) == [pageNumber |-> p]

RawFields(f) ==
    CASE f = FA -> << RawField("contracting_party", Some(<< "Acme" >>), Some(<< Region(Some(1)) >>), Some(9)),
                      RawField("valid_to", Some(<< "2026" >>), None, None),
                      RawField("penalty", Some(<< "z" >>), Some(<< Region(None) >>), Some(5)) >>
      [] f = FB -> << RawField("signed_date", None, None, Some(7)),
                      RawField("contracting_party", Some(<< "Beta", COMMA, " Inc" >>), Some(<< Region(Some(2)) >>), None) >>
      [] f = FC -> << RawField("contracting_party", Some(<< "l1", LF, "l2" >>), None, None) >>
      [] OTHER  -> << RawField("signatory_tatra", Some(<< "x" >>), Some(<< >>), None) >>

\* The body of a status response with status "succeeded".
AnalyzeResult(f) == [documents |-> << [fields |-> RawFields(f)] >>]
NoDocuments      == [documents |-> << >>]

(***************************************************************************)
(* What a call gives: the value it returns, or the exception it raises.    *)
(***************************************************************************)
Returns(v)  == [exc |-> "", val |-> << v >>]
Raises(e)   == [exc |-> e, val |-> << >>]

\* parse_fields (script) / the loop of _parse_fields (adls2)
ParsedField(rf) ==
    [field_name |-> rf.name,
     content    |-> rf.content,
     pageNumber |-> IF rf.boundingRegions = None THEN None
                    ELSE rf.boundingRegions[1][1].pageNumber,
     confidence |-> rf.confidence]

parse_fields(fields) ==
    IF \E i \in 1..Len(fields) : fields[i].boundingRegions = Some(<< >>)
    THEN Raises("IndexError")
    ELSE Returns([i \in 1..Len(fields) |-> ParsedField(fields[i])])

\* result["analyzeResult"]["documents"][0]["fields"], then parse_fields
ParseResult(result) ==
    IF result.documents = << >> THEN Raises("IndexError")
    ELSE parse_fields(result.documents[1].fields)

(***************************************************************************)
(* A dict: its items in insertion order.                                   *)
(***************************************************************************)
DictKeys(d) == {d[i][1] : i \in 1..Len(d)}
DictGet(d, k) == d[CHOOSE i \in 1..Len(d) : d[i][1] = k][2]
DictSet(d, k, v) ==
    IF k \in DictKeys(d)
    THEN [i \in 1..Len(d) |-> IF d[i][1] = k THEN << k, v >> ELSE d[i]]
    ELSE Append(d, << k, v >>)

(***************************************************************************)
(* The projection to the four columns and the two row formats.             *)
(***************************************************************************)
Columns == << "contracting_party", "valid_to", "signed_date", "signatory_tatra" >>

RECURSIVE Project(_, _)
Project(parsed, field_values) ==
    IF parsed = << >> THEN field_values
    ELSE Project(Tail(parsed),
                 IF Head(parsed).field_name \in DOMAIN field_values
                 THEN [field_values EXCEPT ![Head(parsed).field_name] = Head(parsed).content]
                 ELSE field_values)

field_values(parsed) ==
    Project(parsed, [c \in SeqToSet(Columns) |-> Some(<< >>)])

\* an f-string's rendering of a value: None reads "None"
Str(v) == IF v = None THEN << "None" >> ELSE v[1]

Quoted(s) == << QUOTE >> \o s \o << QUOTE >>

\* script, lines 94-96: the row appended to the metadata file
ScriptRow(file_name, parsed) ==
    LET fv == field_values(parsed) IN
    JoinWith(COMMA, << Quoted(file_name) >>
                     \o [i \in 1..Len(Columns) |-> Quoted(Str(fv[Columns[i]]))])
    \o << LF >>

\* script, line 97: the row appended to partner_file_mapping.txt
PartnerRow(file_name, parsed) ==
    JoinWith(COMMA, << Quoted(file_name),
                       Quoted(Str(field_values(parsed)["contracting_party"])) >>)
    \o << LF >>

RECURSIVE ScriptRows(_)
ScriptRows(output) ==
    IF output = << >> THEN << >>
    ELSE ScriptRow(Head(output)[1], Head(output)[2]) \o ScriptRows(Tail(output))

RECURSIVE PartnerRows(_)
PartnerRows(output) ==
    IF output = << >> THEN << >>
    ELSE PartnerRow(Head(output)[1], Head(output)[2]) \o PartnerRows(Tail(output))

\* adls2, lines 160-178: the .csv file the csv writer produces
HeaderRow == << Some(<< "file_name" >>), Some(<< "contracting_party" >>), Some(<< "valid_to" >>),
                Some(<< "signed_date" >>), Some(<< "signatory_tatra" >>) >>

MetadataRow(file_name, parsed) ==
    LET fv == field_values(parsed) IN
    << Some(file_name) >> \o [i \in 1..Len(Columns) |-> fv[Columns[i]]]

RECURSIVE CsvWriteRows(_)
CsvWriteRows(md) ==
    IF md = << >> THEN << >>
    ELSE CsvWriteRow(MetadataRow(Head(md)[1], Head(md)[2])) \o CsvWriteRows(Tail(md))

CsvFile(md) == CsvWriteRow(HeaderRow) \o CsvWriteRows(md)

\* adls2, lines 179-185: the text file: the instruction, a line holding one
\* blank, then every row of the .csv joined with "," and ended with "\n"
Instruction == << "Use this file for all overview questions ... How many partners we have in database? ", LF,
                  " ", LF >>

RECURSIVE JoinRows(_)
JoinRows(rows) ==
    IF rows = << >> THEN << >>
    ELSE JoinWith(COMMA, Head(rows)) \o << LF >> \o JoinRows(Tail(rows))

TxtFile(md) == Instruction \o JoinRows(CsvReader(CsvFile(md)))

(***************************************************************************)
(* check_and_get_new_files: the processed files read from the metadata     *)
(* file, when it exists, past its first three lines; the new files are the *)
(* .pdf names of the folder that are not among them.                       *)
(***************************************************************************)
HeaderLines == 3

RECURSIVE ProcessedOf(_, _)
ProcessedOf(lines, acc) ==
    IF lines = << >> THEN Returns(acc)
    ELSE LET rows == CsvReader(Head(lines)) IN
         IF \E i \in 1..Len(rows) : rows[i] = << >>
         THEN Raises("IndexError")
         ELSE ProcessedOf(Tail(lines), acc \cup {rows[i][1] : i \in 1..Len(rows)})

processed_files(file) ==
    IF file = None THEN Returns({})
    ELSE LET lines == Lines(file[1]) IN
         IF Len(lines) < HeaderLines THEN Raises("StopIteration")
         ELSE ProcessedOf(SubSeq(lines, HeaderLines + 1, Len(lines)), {})

\* Mutant of check_and_get_new_files: the processed files are read but not
\* subtracted.
check_and_get_new_files_keeps_processed(file, dir) ==
    LET processed == processed_files(file) IN
    IF processed.exc # "" THEN Raises(processed.exc)
    ELSE Returns({f \in dir : EndsWithPdf(f)})

check_and_get_new_files(file, dir) ==
    LET processed == processed_files(file) IN
    IF processed.exc # "" THEN Raises(processed.exc)
    ELSE Returns({f \in dir : EndsWithPdf(f)} \ processed.val[1])

(***************************************************************************)
(* The analysis service, as the two clients see it.                        *)
(***************************************************************************)
\* The answer to a submission: "accepted" (success, with the apim-request-id
\* header), "rejected" (a non-success status, the header present), "noid" (a
\* non-success status without the header); or session.post raises.
PostAnswers == {"accepted", "rejected", "noid", "raise"}

\* The body of a status response: its "status" key may be missing, and so may
\* the "error" key of a failed analysis.
StatusResponse(s, r, e) == [status |-> s, result |-> r, error |-> e]

StatusResponses(f) ==
    { StatusResponse(None, NoDocuments, None),
      StatusResponse(Some("running"), NoDocuments, None),
      StatusResponse(Some("succeeded"), AnalyzeResult(f), None),
      StatusResponse(Some("succeeded"), NoDocuments, None),
      StatusResponse(Some("failed"), NoDocuments, Some(<< "InvalidContent" >>)),
      StatusResponse(Some("failed"), NoDocuments, None) }

\* A submission the service did not accept started no analysis: the status
\* query for its id (or for "Not Found") is answered without a status.
ResponsesFor(f, j) ==
    IF j.post = "accepted" THEN StatusResponses(f)
    ELSE { StatusResponse(None, NoDocuments, None) }

(***************************************************************************)
(* One job: the submission of one file and the polling of its result.      *)
(*   st    where the coroutine of the job is:                              *)
(*           "idle"      not started                                       *)
(*           "posting"   the POST is issued, its answer awaited            *)
(*           "polling"   the id is at hand, the next GET is not issued     *)
(*           "getting"   the GET is issued, its response awaited           *)
(*           "reading"   the response is there, its body awaited           *)
(*                       (await response.json())                           *)
(*           "sleeping"  in asyncio.sleep(5)                               *)
(*           "done"      ended                                             *)
(*   post  the service's answer to the submission                          *)
(*   id    the apim_request_id the client polls with                       *)
(*   posts, polls, waits   the submissions and status queries issued and   *)
(*         the sleeps of the fixed interval started so far                 *)
(*   resp  the body of the last status response read (meaningless before   *)
(*         the first)                                                      *)
(*   out   how the coroutine ended: "pending", "result" (val holds what it *)
(*         returned), "none" (it returned None) or "error" (exc, detail)   *)
(***************************************************************************)
Outcome(k, e, d, v) == [kind |-> k, exc |-> e, detail |-> d, val |-> v]
Pending == Outcome("pending", "", << >>, << >>)

IdleJob == [st |-> "idle", post |-> "", id |-> None, posts |-> 0, polls |-> 0,
            waits |-> 0, resp |-> StatusResponse(None, NoDocuments, None), out |-> Pending]

max_retries == 12
MaxPolls == 13

StatusText(resp) == IF resp.status = None THEN "missing" ELSE resp.status[1]

\* The status responses a job has read: every query but one still under way.
Reads(j) == IF j.st \in {"getting", "reading"} THEN j.polls - 1 ELSE j.polls

\* The status of the last response a job has read: "" before the first,
\* "missing" for a body without the key.
StatusOf(j) == IF Reads(j) = 0 THEN "" ELSE StatusText(j.resp)

\* response_json.get('error', 'Unknown error')
ErrorDetail(resp) == IF resp.error = None THEN << "Unknown error" >> ELSE resp.error[1]

Ended(j, out) == [j EXCEPT !.st = "done", !.out = out]
Sleep(j)      == [j EXCEPT !.st = "sleeping", !.waits = @ + 1]

\* session.post is entered: the request is issued (script line 37, adls2
\* line 86).
PostStep(j) == [j EXCEPT !.st = "posting", !.posts = @ + 1]

\* analyze_document_async, lines 38-39, and adls2 lines 87-89, once the POST
\* is answered: the id is the header, "Not Found" without it; the status of
\* the answer is not looked at.
SubmitStep(f, j, answer) ==
    IF answer = "raise"
    THEN Ended(j, Outcome("error", "ClientError", << >>, << >>))
    ELSE [j EXCEPT !.st = "polling", !.post = answer,
                   !.id = IF answer = "noid" THEN Some(NotFound) ELSE Some(f)]

\* session.get is entered: the status query is issued (script line 50, adls2
\* line 95). On the session that process_files has closed no query is issued
\* and the coroutine ends with RuntimeError.
GetStep(j, s) ==
    IF s = "closed"
    THEN Ended(j, Outcome("error", "RuntimeError", << "Session is closed" >>, << >>))
    ELSE [j EXCEPT !.st = "getting", !.polls = @ + 1]

\* Mutant of ScriptPollStep: the "failed" branch is missing, so a failed
\* analysis is waited on and queried again like a running one.
ScriptPollStepRetriesFailed(j, resp) ==
    LET q == [j EXCEPT !.resp = resp] IN
    IF resp.status = None
    THEN Ended(q, Outcome("error", "KeyError", << "status" >>, << >>))
    ELSE IF resp.status[1] = "succeeded"
    THEN Ended(q, Outcome("result", "", << >>, << resp.result >>))
    ELSE Sleep(q)

\* get_analysis_results_async, lines 52-59: what one turn of the loop does
\* with the body it has read
ScriptPollStep(j, resp) ==
    LET q == [j EXCEPT !.resp = resp] IN
    IF resp.status = None
    THEN Ended(q, Outcome("error", "KeyError", << "status" >>, << >>))
    ELSE IF resp.status[1] = "succeeded"
    THEN Ended(q, Outcome("result", "", << >>, << resp.result >>))
    ELSE IF resp.status[1] = "failed"
    THEN Ended(q, Outcome("error", "ValueError", ErrorDetail(resp), << >>))
    ELSE Sleep(q)

\* Mutant of Adls2PollStep: a failed analysis is swallowed and returned as
\* a record without fields instead of being raised.
Adls2PollStepRecordsFailed(j, resp, callable, file_name) ==
    LET q == [j EXCEPT !.resp = resp] IN
    IF resp.status = None THEN Sleep(q)
    ELSE IF resp.status[1] = "succeeded"
    THEN IF ~callable
         THEN Ended(q, Outcome("error", "TypeError", << "not callable" >>, << >>))
         ELSE LET parsed == ParseResult(resp.result) IN
              IF parsed.exc # ""
              THEN Ended(q, Outcome("error", parsed.exc, << >>, << >>))
              ELSE Ended(q, Outcome("result", "", << >>, << << file_name, parsed.val[1] >> >>))
    ELSE IF resp.status[1] = "failed"
    THEN Ended(q, Outcome("result", "", << >>, << << file_name, << >> >> >>))
    ELSE Sleep(q)

\* _analyze_document_async, lines 98-110: what one turn of the loop does with
\* the body it has read.  A logging.Logger is not callable: line 103 raises
\* TypeError with one.
Adls2PollStep(j, resp, callable, file_name) ==
    LET q == [j EXCEPT !.resp = resp] IN
    IF resp.status = None THEN Sleep(q)
    ELSE IF resp.status[1] = "succeeded"
    THEN IF ~callable
         THEN Ended(q, Outcome("error", "TypeError", << "not callable" >>, << >>))
         ELSE LET parsed == ParseResult(resp.result) IN
              IF parsed.exc # ""
              THEN Ended(q, Outcome("error", parsed.exc, << >>, << >>))
              ELSE Ended(q, Outcome("result", "", << >>, << << file_name, parsed.val[1] >> >>))
    ELSE IF resp.status[1] = "failed"
    THEN Ended(q, Outcome("error", "ValueError", ErrorDetail(resp), << >>))
    ELSE Sleep(q)

\* The sleep is over.  script, line 59 back to line 49: the loop goes on.
ScriptWakeStep(j) == [j EXCEPT !.st = "polling"]

\* adls2, lines 99/110 back to line 94: the loop goes on, or it has made its
\* max_retries turns and the coroutine returns None.
Adls2WakeStep(j) ==
    IF j.polls = max_retries
    THEN Ended(j, Outcome("none", "", << >>, << >>))
    ELSE [j EXCEPT !.st = "polling"]

(***************************************************************************)
(* The state.                                                              *)
(*   variant          "script" or "adls2"                                  *)
(*   loggerCallable   adls2: whether the injected logger can be called (a  *)
(*                    logging.Logger, the declared type and the default,   *)
(*                    cannot)                                              *)
(*   pathGiven        adls2: whether metadata_file_path was passed to the  *)
(*                    constructor; without it the attribute holds the      *)
(*                    un-awaited coroutine of line 35                      *)
(*   folder           script: the names in data_folder_path                *)
(*   listing          adls2: what list_file_strategy.list() yields, each   *)
(*                    item a file (its name) or a false value (None)       *)
(*   artifact         the metadata file: None while it does not exist      *)
(*   partner          script: partner_file_mapping.txt                     *)
(*   localCsv         adls2: the intermediate .csv file                    *)
(*   uploaded         adls2: the content last handed to upload_blob        *)
(*   run              the number of the run under way                      *)
(*   pc               where the run is: "start", "submitting", "polling",  *)
(*                    "running", "extracted", "done", "aborted", "crashed";*)
(*                    script, "left_submitting" and "left_polling": an     *)
(*                    exception has left process_files out of that gather  *)
(*                    and the loop of asyncio.run has not stopped yet      *)
(*   session          the aiohttp.ClientSession: "none", "open", "closed"  *)
(*   new_file_names   script: the list check_and_get_new_files returned    *)
(*   tasks            adls2: the file names of the coroutines created      *)
(*   job              the job of each file                                 *)
(*   ended            the coroutines that have ended and that the awaiting *)
(*                    coroutine has not been resumed for yet, in the order *)
(*                    in which they ended (adls2: every one, for the loop  *)
(*                    of line 140; script: those that raised, for gather)  *)
(*   result_collection  adls2: the dict of line 139; script: output        *)
(*   metadata         adls2: self.metadata                                 *)
(*   errlog           what was passed to logger.error, in order            *)
(*   raised           the exception that ended the run, if one did         *)
(*   sessions, writes, uploads  sessions opened, writes of the metadata    *)
(*                    file and upload_blob calls, in this run              *)
(*   firstRunOk       whether the first run ended with every file's        *)
(*                    analysis succeeded and recorded                      *)
(***************************************************************************)
VARIABLES variant, loggerCallable, pathGiven, folder, listing,
          artifact, partner, localCsv, uploaded,
          run, pc, session, new_file_names, tasks, job, ended,
          result_collection, metadata, errlog, raised,
          sessions, writes, uploads, firstRunOk

config  == << variant, loggerCallable, pathGiven, folder, listing >>
files   == << artifact, partner, localCsv, uploaded >>
perRun  == << pc, session, new_file_names, tasks, job, ended, result_collection,
              metadata, errlog, raised, sessions, writes, uploads >>
vars    == << config, files, run, perRun, firstRunOk >>

MaxRuns == 2

Text(file) == IF file = None THEN << >> ELSE file[1]

Parsed(f) == ParseResult(AnalyzeResult(f)).val[1]

\* The permutations of a set, as sequences.
Perms(S) == { p \in [1..Cardinality(S) -> S] : \A x \in S : \E i \in DOMAIN p : p[i] = x }

Folders == { {FM}, {FA, FM}, {FA, FB, FM}, {FC, FM} }

Listings == { << >>,
              << Some(FA), Some(FB) >>,
              << Some(FM), Some(FA) >>,
              << Some(FA), None >>,
              << Some(FC) >> }

\* The metadata file before the run: missing; the adls2 text with no row and
\* with one row; the file a first script run leaves when it was missing.
ScriptArtifacts == { None,
                     Some(TxtFile(<< >>)),
                     Some(TxtFile(<< << FA, Parsed(FA) >> >>)),
                     Some(ScriptRows(<< << FA, Parsed(FA) >> >>)) }

Adls2Artifacts == { None, Some(TxtFile(<< << FB, Parsed(FB) >> >>)) }

\* The state a run starts in (for adls2, the object __init__ leaves).
FreshRun ==
    /\ pc = "start"
    /\ session = "none"
    /\ new_file_names = << >>
    /\ tasks = << >>
    /\ job = [f \in AllFiles |-> IdleJob]
    /\ ended = << >>
    /\ result_collection = << >>
    /\ metadata = << >>
    /\ errlog = << >>
    /\ raised = None
    /\ sessions = 0
    /\ writes = 0
    /\ uploads = 0

InitScript ==
    /\ variant = "script"
    /\ loggerCallable = FALSE
    /\ pathGiven = TRUE
    /\ folder \in Folders
    /\ listing = << >>
    /\ artifact \in ScriptArtifacts

InitAdls2 ==
    /\ variant = "adls2"
    /\ loggerCallable \in BOOLEAN
    /\ pathGiven \in BOOLEAN
    /\ folder = {}
    /\ listing \in Listings
    /\ artifact \in Adls2Artifacts

Init ==
    /\ InitScript \/ InitAdls2
    /\ partner = None
    /\ localCsv = None
    /\ uploaded = None
    /\ run = 1
    /\ FreshRun
    /\ firstRunOk = FALSE

(***************************************************************************)
(* script: __main__, lines 136-142, and the entry of process_files.        *)
(***************************************************************************)
CheckAndGetNewFiles ==
    /\ variant = "script"
    /\ pc = "start"
    /\ LET r == check_and_get_new_files(artifact, folder) IN
       IF r.exc # ""
       THEN /\ pc' = "crashed"
            /\ raised' = Some(r.exc)
            /\ UNCHANGED << new_file_names, session, sessions >>
       ELSE IF r.val[1] = {}
       THEN /\ pc' = "done"
            /\ UNCHANGED << new_file_names, session, sessions, raised >>
       ELSE /\ new_file_names' \in Perms(r.val[1])
            /\ pc' = "submitting"
            /\ session' = "open"
            /\ sessions' = sessions + 1
            /\ UNCHANGED raised
    /\ UNCHANGED << config, files, run, tasks, job, ended, result_collection, metadata,
                    errlog, writes, uploads, firstRunOk >>

(***************************************************************************)
(* adls2: run_extraction, lines 129-137.                                   *)
(***************************************************************************)
\* lines 130-137: the coroutines appended to tasks, up to the end of the
\* listing or to the return of line 134 (exc "return"), which leaves with the
\* ones appended so far.
RECURSIVE CollectTasks(_, _, _)
CollectTasks(items, path, acc) ==
    IF items = << >> THEN Returns(acc)
    ELSE IF Head(items) = None THEN [exc |-> "return", val |-> << acc >>]
    ELSE IF path # None /\ Head(items)[1] = path[1] THEN CollectTasks(Tail(items), path, acc)
    ELSE CollectTasks(Tail(items), path, Append(acc, Head(items)[1]))

metadata_file_path == IF pathGiven THEN Some(FM) ELSE None

\* Mutant of ListFiles: the session is not held by "async with", so the
\* early return of line 134 leaves before the close of line 149.
ListFilesLeavesOpen ==
    /\ variant = "adls2"
    /\ pc = "start"
    /\ sessions' = sessions + 1
    /\ session' = "open"
    /\ LET r == CollectTasks(listing, metadata_file_path, << >>) IN
       /\ tasks' = r.val[1]
       /\ pc' = IF r.exc # "" THEN "extracted" ELSE "running"
    /\ UNCHANGED << config, files, run, new_file_names, job, ended, result_collection,
                    metadata, errlog, raised, writes, uploads, firstRunOk >>

ListFiles ==
    /\ variant = "adls2"
    /\ pc = "start"
    /\ sessions' = sessions + 1
    /\ LET r == CollectTasks(listing, metadata_file_path, << >>) IN
       /\ tasks' = r.val[1]
       /\ IF r.exc # ""
          THEN pc' = "extracted" /\ session' = "closed"
          ELSE pc' = "running" /\ session' = "open"
    /\ UNCHANGED << config, files, run, new_file_names, job, ended, result_collection,
                    metadata, errlog, raised, writes, uploads, firstRunOk >>

(***************************************************************************)
(* The jobs of the run and how their coroutines are driven.  Each action   *)
(* is what one coroutine does between two returns to the event loop.       *)
(*   script: asyncio.gather of the submissions, then of the polls.  gather *)
(*           starts the coroutines in the order of the list, and each runs *)
(*           up to its request before any answer is handled.  The first    *)
(*           exception of a coroutine is raised in process_files when that *)
(*           is resumed, and its "async with" then closes the session.     *)
(*           The coroutines still under way go on, before that and after,  *)
(*           until asyncio.run stops the loop and cancels them.            *)
(*   adls2:  asyncio.as_completed starts the coroutines (it holds them in  *)
(*           a set); what each returns or raises is handled by lines       *)
(*           141-147 when run_extraction is resumed, in completion order.  *)
(***************************************************************************)
Batch == IF variant = "script" THEN SeqToSet(new_file_names) ELSE SeqToSet(tasks)

AllIn(S, state) == \A g \in S : job[g].st = state

\* The names that come before f in a list.
Earlier(names, f) ==
    {names[i] : i \in {k \in 1..Len(names) : \E m \in 1..Len(names) : k < m /\ names[m] = f}}

\* The loop runs the coroutines of the submissions.
Submitting ==
    pc \in IF variant = "script" THEN {"submitting", "left_submitting"} ELSE {"running"}

\* The loop runs the coroutines of the polls.
Awaiting ==
    pc \in IF variant = "script" THEN {"polling", "left_polling"} ELSE {"running"}

\* What the awaiting coroutine is to be resumed for when job j has ended;
\* nothing once process_files has left.
Completed(f, j) ==
    IF /\ j.st = "done"
       /\ (variant = "adls2" \/ j.out.kind = "error")
       /\ pc \in {"submitting", "polling", "running"}
    THEN Append(ended, f)
    ELSE ended

\* lines 141-147 for one completed coroutine
Collected(rc, out) ==
    IF out.kind = "result" THEN DictSet(rc, out.val[1][1], out.val[1][2]) ELSE rc

Logged(log, out) ==
    IF out.kind = "error" THEN Append(log, [exc |-> out.exc, detail |-> out.detail]) ELSE log

\* The coroutine of f is started and runs up to its POST.
IssuePost(f) ==
    /\ f \in Batch
    /\ job[f].st = "idle"
    /\ Submitting
    /\ variant = "script" => \A g \in Earlier(new_file_names, f) : job[g].st # "idle"
    /\ job' = [job EXCEPT ![f] = PostStep(job[f])]
    /\ UNCHANGED << config, files, run, pc, session, new_file_names, tasks, ended,
                    result_collection, metadata, errlog, raised, sessions, writes,
                    uploads, firstRunOk >>

\* The POST of f is answered, or fails.
PostAnswer(f) ==
    /\ f \in Batch
    /\ job[f].st = "posting"
    /\ Submitting
    /\ \A g \in Batch : job[g].st # "idle"
    /\ \E answer \in PostAnswers :
         LET j == SubmitStep(f, job[f], answer) IN
         /\ job' = [job EXCEPT ![f] = j]
         /\ ended' = Completed(f, j)
    /\ UNCHANGED << config, files, run, pc, session, new_file_names, tasks,
                    result_collection, metadata, errlog, raised, sessions, writes,
                    uploads, firstRunOk >>

\* script, lines 73-79: every submission has returned its id; process_files
\* is resumed and gathers the polls.
StartPolls ==
    /\ variant = "script"
    /\ pc = "submitting"
    /\ AllIn(Batch, "polling")
    /\ pc' = "polling"
    /\ UNCHANGED << config, files, run, session, new_file_names, tasks, job, ended,
                    result_collection, metadata, errlog, raised, sessions, writes,
                    uploads, firstRunOk >>

\* The coroutine of f issues its next status query.
IssueGet(f) ==
    /\ f \in Batch
    /\ job[f].st = "polling"
    /\ Awaiting
    /\ session = "closed" \/ job[f].polls < MaxPolls
    /\ (variant = "script" /\ job[f].polls = 0) =>
           \A g \in Earlier(new_file_names, f) : job[g].polls > 0
    /\ LET j == GetStep(job[f], session) IN
       /\ job' = [job EXCEPT ![f] = j]
       /\ ended' = Completed(f, j)
    /\ UNCHANGED << config, files, run, pc, session, new_file_names, tasks,
                    result_collection, metadata, errlog, raised, sessions, writes,
                    uploads, firstRunOk >>

\* The response to the status query of f arrives; its body is awaited.
GetAnswer(f) ==
    /\ f \in Batch
    /\ job[f].st = "getting"
    /\ Awaiting
    /\ variant = "script" => \A g \in Batch : job[g].polls > 0
    /\ job' = [job EXCEPT ![f].st = "reading"]
    /\ UNCHANGED << config, files, run, pc, session, new_file_names, tasks, ended,
                    result_collection, metadata, errlog, raised, sessions, writes,
                    uploads, firstRunOk >>

\* The service keeps at most one job of a batch waiting for more than
\* MaxBothWait turns.
MaxBothWait == 2

\* The body is read and the turn of the loop decides: the coroutine ends, or
\* it starts its sleep.
ReadBody(f) ==
    /\ f \in Batch
    /\ job[f].st = "reading"
    /\ Awaiting
    /\ \E resp \in ResponsesFor(f, job[f]) :
         LET j == IF variant = "script"
                  THEN ScriptPollStep(job[f], resp)
                  ELSE Adls2PollStep(job[f], resp, loggerCallable, f)
         IN
         /\ j.waits > MaxBothWait => \A g \in Batch \ {f} : job[g].waits <= MaxBothWait
         /\ job' = [job EXCEPT ![f] = j]
         /\ ended' = Completed(f, j)
    /\ UNCHANGED << config, files, run, pc, session, new_file_names, tasks,
                    result_collection, metadata, errlog, raised, sessions, writes,
                    uploads, firstRunOk >>

\* The sleep of f's coroutine is over.
Wake(f) ==
    /\ f \in Batch
    /\ job[f].st = "sleeping"
    /\ Awaiting
    /\ LET j == IF variant = "script" THEN ScriptWakeStep(job[f]) ELSE Adls2WakeStep(job[f]) IN
       /\ job' = [job EXCEPT ![f] = j]
       /\ ended' = Completed(f, j)
    /\ UNCHANGED << config, files, run, pc, session, new_file_names, tasks,
                    result_collection, metadata, errlog, raised, sessions, writes,
                    uploads, firstRunOk >>

\* script, lines 73 and 79: process_files is resumed with the first exception
\* of the gather and left through its "async with", which closes the session.
Reraise ==
    /\ variant = "script"
    /\ pc \in {"submitting", "polling"}
    /\ ended # << >>
    /\ pc' = IF pc = "submitting" THEN "left_submitting" ELSE "left_polling"
    /\ raised' = Some(job[Head(ended)].out.exc)
    /\ session' = "closed"
    /\ ended' = << >>
    /\ UNCHANGED << config, files, run, new_file_names, tasks, job,
                    result_collection, metadata, errlog, sessions, writes,
                    uploads, firstRunOk >>

\* script, line 142: asyncio.run stops the loop and cancels the coroutines
\* that are still under way, each where it is.
Cancel ==
    /\ variant = "script"
    /\ pc \in {"left_submitting", "left_polling"}
    /\ pc' = "aborted"
    /\ UNCHANGED << config, files, run, session, new_file_names, tasks, job, ended,
                    result_collection, metadata, errlog, raised, sessions, writes,
                    uploads, firstRunOk >>

\* adls2, lines 140-147: run_extraction is resumed with the next completed
\* coroutine.
Harvest ==
    /\ variant = "adls2"
    /\ pc = "running"
    /\ ended # << >>
    /\ LET out == job[Head(ended)].out IN
       /\ result_collection' = Collected(result_collection, out)
       /\ errlog' = Logged(errlog, out)
    /\ ended' = Tail(ended)
    /\ UNCHANGED << config, files, run, pc, session, new_file_names, tasks, job,
                    metadata, raised, sessions, writes, uploads, firstRunOk >>

(***************************************************************************)
(* script: process_files, lines 81-97, once every poll has returned.       *)
(***************************************************************************)
\* Mutant of Output: the results are paired with the names from the other
\* end of the list, as results taken in another order than the submissions.
RECURSIVE OutputMisaligned(_, _)
OutputMisaligned(names, acc) ==
    IF names = << >> THEN Returns(acc)
    ELSE LET other  == new_file_names[Len(names)]
             parsed == ParseResult(job[other].out.val[1])
         IN
         IF parsed.exc # "" THEN [exc |-> parsed.exc, val |-> << acc >>]
         ELSE OutputMisaligned(Tail(names), DictSet(acc, Head(names), parsed.val[1]))

\* lines 82-85: output, filled in the order of the names; an exception of
\* line 84 or of parse_fields leaves with what was stored before it.
RECURSIVE Output(_, _)
Output(names, acc) ==
    IF names = << >> THEN Returns(acc)
    ELSE LET parsed == ParseResult(job[Head(names)].out.val[1]) IN
         IF parsed.exc # "" THEN [exc |-> parsed.exc, val |-> << acc >>]
         ELSE Output(Tail(names), DictSet(acc, Head(names), parsed.val[1]))

\* Every poll of the batch has returned its result.
AllReturned == \A f \in Batch : job[f].st = "done" /\ job[f].out.kind = "result"

\* Mutant of WriteResults: the rows of the results at hand are written as
\* soon as one job has returned, without waiting for the others.
WriteResultsEarly ==
    /\ variant = "script"
    /\ pc = "polling"
    /\ \E f \in Batch : job[f].out.kind = "result"
    /\ session' = "closed"
    /\ LET returned(n) == job[n].out.kind = "result"
           output == Output(SelectSeq(new_file_names, returned), << >>)
       IN
       IF output.exc # ""
       THEN /\ pc' = "aborted"
            /\ raised' = Some(output.exc)
            /\ result_collection' = output.val[1]
            /\ UNCHANGED << artifact, partner, writes >>
       ELSE /\ result_collection' = output.val[1]
            /\ artifact' = Some(Text(artifact) \o ScriptRows(output.val[1]))
            /\ partner' = Some(Text(partner) \o PartnerRows(output.val[1]))
            /\ writes' = writes + 1
            /\ pc' = "done"
            /\ UNCHANGED raised
    /\ UNCHANGED << config, localCsv, uploaded, run, new_file_names, tasks, job, ended,
                    metadata, errlog, sessions, uploads, firstRunOk >>

WriteResults ==
    /\ variant = "script"
    /\ pc = "polling"
    /\ AllReturned
    /\ session' = "closed"
    /\ LET output == Output(new_file_names, << >>) IN
       IF output.exc # ""
       THEN /\ pc' = "aborted"
            /\ raised' = Some(output.exc)
            /\ result_collection' = output.val[1]
            /\ UNCHANGED << artifact, partner, writes >>
       ELSE /\ result_collection' = output.val[1]
            /\ artifact' = Some(Text(artifact) \o ScriptRows(output.val[1]))
            /\ partner' = Some(Text(partner) \o PartnerRows(output.val[1]))
            /\ writes' = writes + 1
            /\ pc' = "done"
            /\ UNCHANGED raised
    /\ UNCHANGED << config, localCsv, uploaded, run, new_file_names, tasks, job, ended,
                    metadata, errlog, sessions, uploads, firstRunOk >>

(***************************************************************************)
(* adls2: run_extraction, lines 149-150, once the loop of line 140 has     *)
(* handled every coroutine.                                                *)
(***************************************************************************)
FinishExtraction ==
    /\ variant = "adls2"
    /\ pc = "running"
    /\ AllIn(Batch, "done")
    /\ ended = << >>
    /\ session' = "closed"
    /\ metadata' = result_collection
    /\ pc' = "extracted"
    /\ UNCHANGED << config, files, run, new_file_names, tasks, job, ended,
                    result_collection, errlog, raised, sessions, writes, uploads,
                    firstRunOk >>

(***************************************************************************)
(* adls2: reupload_metadata.  os.path.basename of the coroutine that       *)
(* stands for a path that was not given raises TypeError, which line 197   *)
(* catches and logs.                                                       *)
(***************************************************************************)
\* line 154: "if not self.metadata"
NoMetadata(md) == md = << >>

ReuploadMetadata ==
    /\ variant = "adls2"
    /\ pc = "extracted"
    /\ pc' = "done"
    /\ IF NoMetadata(metadata)
       THEN UNCHANGED << files, errlog, writes, uploads >>
       ELSE IF ~pathGiven
       THEN /\ errlog' = Append(errlog, [exc |-> "TypeError", detail |-> << "basename" >>])
            /\ UNCHANGED << files, writes, uploads >>
       ELSE /\ localCsv' = Some(CsvFile(metadata))
            /\ artifact' = Some(TxtFile(metadata))
            /\ uploaded' = Some(TxtFile(metadata))
            /\ writes' = writes + 1
            /\ uploads' = uploads + 1
            /\ UNCHANGED << partner, errlog >>
    /\ UNCHANGED << config, run, session, new_file_names, tasks, job, ended,
                    result_collection, metadata, raised, sessions, firstRunOk >>

(***************************************************************************)
(* The program is run again: the files it left are what the next run       *)
(* finds, everything else starts afresh.                                   *)
(***************************************************************************)
RunEnded == pc \in {"done", "aborted", "crashed"}

\* Every file the run had to analyse ended with its result recorded.
EveryFileSucceeded ==
    /\ pc = "done"
    /\ IF variant = "script"
       THEN DictKeys(result_collection) = {f \in folder : EndsWithPdf(f)}
       ELSE /\ \A i \in 1..Len(listing) : listing[i] # None
            /\ DictKeys(metadata) = SeqToSet(tasks)
            /\ (metadata # << >> => uploads = 1)

Rerun ==
    /\ RunEnded
    /\ run < MaxRuns
    /\ run' = run + 1
    /\ firstRunOk' = IF run = 1 THEN EveryFileSucceeded ELSE firstRunOk
    /\ pc' = "start"
    /\ session' = "none"
    /\ new_file_names' = << >>
    /\ tasks' = << >>
    /\ job' = [f \in AllFiles |-> IdleJob]
    /\ ended' = << >>
    /\ result_collection' = << >>
    /\ metadata' = << >>
    /\ errlog' = << >>
    /\ raised' = None
    /\ sessions' = 0
    /\ writes' = 0
    /\ uploads' = 0
    /\ UNCHANGED << config, files >>

Next ==
    \/ CheckAndGetNewFiles
    \/ ListFiles
    \/ \E f \in AllFiles : IssuePost(f)
    \/ \E f \in AllFiles : PostAnswer(f)
    \/ StartPolls
    \/ \E f \in AllFiles : IssueGet(f)
    \/ \E f \in AllFiles : GetAnswer(f)
    \/ \E f \in AllFiles : ReadBody(f)
    \/ \E f \in AllFiles : Wake(f)
    \/ Reraise
    \/ Cancel
    \/ Harvest
    \/ WriteResults
    \/ FinishExtraction
    \/ ReuploadMetadata

Spec == Init /\ [][Next]_vars

NextRerun == Next \/ Rerun

SpecRerun == Init /\ [][NextRerun]_vars

(***************************************************************************)
(*                              The claims                                 *)
(***************************************************************************)
\* The service answered the last query of f's job "succeeded" with a result
\* the parser accepts.
SucceededAnalysis(f) ==
    /\ StatusOf(job[f]) = "succeeded"
    /\ ParseResult(job[f].resp.result).exc = ""

\* f's job ended in an error: a failed analysis, or an exception raised by
\* its submission, its polling or the parsing of its result.
ErroredAnalysis(f) ==
    /\ job[f].st = "done"
    /\ ~SucceededAnalysis(f)
    /\ job[f].out.kind = "error"

\* The record of g is in what the run persisted.
Persisted(g) ==
    IF variant = "script"
    THEN writes = 1 /\ g \in DictKeys(result_collection)
    ELSE /\ uploads = 1
         /\ g \in DictKeys(metadata)
         /\ uploaded = Some(TxtFile(metadata))

\* C1: per-document failure isolation.  Once the run has ended, if one file's
\* analysis ended in an error and another's succeeded, the run completed, the
\* batch result holds the record of the one that succeeded, it was persisted,
\* and the error of the other was reported.
FailureIsolation ==
    \A f \in Batch : \A g \in Batch :
        (RunEnded /\ ErroredAnalysis(f) /\ SucceededAnalysis(g)) =>
            /\ pc = "done"
            /\ g \in DictKeys(result_collection)
            /\ Persisted(g)
            /\ \E i \in 1..Len(errlog) : errlog[i].exc = job[f].out.exc

\* C2: polling is bounded.  No job issues more than max_retries status
\* queries.
PollingBounded == \A f \in AllFiles : job[f].polls <= max_retries

\* The attempt budget of f's job is spent: max_retries responses were not
\* terminal and were each followed by the wait.
BudgetExhausted(f) ==
    /\ job[f].waits >= max_retries
    /\ StatusOf(job[f]) \notin {"succeeded", "failed"}

\* C3: a job whose status is not terminal within the attempt budget ends with a
\* PollTimeoutError, and its file name is not in the metadata mapping.
TimeoutIsAnError ==
    \A f \in AllFiles :
        BudgetExhausted(f) =>
            /\ job[f].st = "done"
            /\ job[f].out.kind = "error"
            /\ job[f].out.exc = "PollTimeoutError"
            /\ f \notin DictKeys(result_collection) \cup DictKeys(metadata)

\* C4: a job whose status responses are n non-terminal ones followed by
\* "succeeded" (with a result the parser accepts) returns the result, after n
\* waits and n + 1 status queries.
SucceededYieldsResult ==
    \A f \in AllFiles :
        SucceededAnalysis(f) =>
            /\ job[f].out.kind = "result"
            /\ job[f].polls = job[f].waits + 1

\* C5: a "failed" response ends the job with an error that carries the detail
\* the service reported, and the job is not retried: no status query and no
\* submission follows for it.
FailedEndsJob ==
    \A f \in AllFiles :
        StatusOf(job[f]) = "failed" =>
            /\ job[f].st = "done"
            /\ job[f].out.kind = "error"
            /\ job[f].out.exc = "ValueError"
            /\ job[f].resp.error # None => job[f].out.detail = job[f].resp.error[1]

FailedNotRetriedStep ==
    \A f \in AllFiles :
        StatusOf(job[f]) = "failed" =>
            /\ job'[f].polls = job[f].polls
            /\ job'[f].posts = job[f].posts

FailedNotRetried == [] FailedEndsJob /\ [][FailedNotRetriedStep]_vars

\* C5 witness: a job that waited, was answered "failed" with a detail, and
\* ended, while the run went on.
FailedWitness ==
    \E f \in AllFiles :
        /\ StatusOf(job[f]) = "failed"
        /\ job[f].resp.error # None
        /\ job[f].waits > 0
        /\ pc = "extracted"

\* C6: a response whose status is neither "succeeded" nor "failed", or is
\* missing, never ends the job with an error or a result.
NonTerminalNeverEnds ==
    \A f \in AllFiles :
        StatusOf(job[f]) \in {"missing", "running"} =>
            job[f].out.kind \notin {"error", "result"}

\* C7: idempotent re-processing.  In a second run that follows a first run in
\* which every file succeeded, nothing is submitted and the artifact is
\* neither written nor uploaded.
SecondRunIdle ==
    (run = 2 /\ firstRunOk) =>
        /\ \A f \in AllFiles : job[f].posts = 0
        /\ writes = 0
        /\ uploads = 0

\* The .pdf names of the folder.
all_pdf_files == {f \in folder : EndsWithPdf(f)}

\* C8: the new files are the source files (the .pdf names of the folder) minus
\* the processed files, each once; against an empty index they are all the
\* source files, and against an index that holds them all there is none.
NewFilesAreDifference ==
    (variant = "script" /\ pc \notin {"start", "crashed"} /\ writes = 0) =>
        LET index == processed_files(artifact).val[1]
            new   == SeqToSet(new_file_names)
        IN
        /\ new = all_pdf_files \ index
        /\ Len(new_file_names) = Cardinality(new)
        /\ (artifact = None \/ index = {}) => new = all_pdf_files
        /\ all_pdf_files \subseteq index => (new_file_names = << >> /\ pc = "done")

\* C8 witness: a selection that left out a processed file and kept a new one.
NewFilesWitness ==
    /\ variant = "script"
    /\ pc = "submitting"
    /\ artifact # None
    /\ FA \in all_pdf_files
    /\ new_file_names = << FB >>

\* C9: a run that finds no new file has no effect: it submits nothing, opens
\* no session, writes no file and uploads nothing; and the persist step of a
\* run that accumulated no record writes and uploads nothing.
NoNewFilesNoEffect ==
    /\ (variant = "script" /\ pc = "done" /\ new_file_names = << >>) =>
           /\ \A f \in AllFiles : job[f].posts = 0 /\ job[f].polls = 0
           /\ sessions = 0 /\ session = "none"
           /\ writes = 0 /\ uploads = 0
           /\ partner = None
    /\ (variant = "adls2" /\ pc = "done" /\ metadata = << >>) =>
           /\ writes = 0 /\ uploads = 0
           /\ localCsv = None /\ uploaded = None
    /\ (variant = "adls2" /\ pc = "done"
           /\ (tasks = << >> \/ \E i \in 1..Len(listing) : listing[i] = None)) =>
           /\ \A f \in AllFiles : job[f].posts = 0 /\ job[f].polls = 0
           /\ sessions = 0
           /\ writes = 0 /\ uploads = 0

\* The file names of the records the run wrote.
WrittenNames == IF variant = "script" THEN DictKeys(result_collection) ELSE DictKeys(metadata)

\* C10: round trip of the artifact.  When a run has written records to an
\* artifact that held none (the script's first write to a missing file, any
\* write of adls2), the processed-file loader reads back exactly the file
\* names written.
RoundTrip ==
    ( /\ pc = "done" /\ writes = 1
      /\ variant = "script" => artifact = Some(ScriptRows(result_collection)) )
    => processed_files(artifact) = Returns(WrittenNames)

\* The records the run holds are records of f's whose analysis succeeded and
\* was parsed, each built by the parser from that analysis.
OnlySucceededRecorded ==
    \A f \in DictKeys(result_collection) \cup DictKeys(metadata) :
        /\ f \in Batch
        /\ SucceededAnalysis(f)
        /\ job[f].st = "done"

\* The metadata file (and the partner file, the .csv and the upload) changes
\* only by a write of the records the run holds.
OnlyRecordsWritten ==
    /\ artifact' # artifact =>
          IF variant = "script"
          THEN artifact' = Some(Text(artifact) \o ScriptRows(result_collection'))
          ELSE artifact' = Some(TxtFile(metadata))
    /\ partner' # partner =>
          partner' = Some(Text(partner) \o PartnerRows(result_collection'))
    /\ localCsv' # localCsv => localCsv' = Some(CsvFile(metadata))
    /\ uploaded' # uploaded => uploaded' = Some(TxtFile(metadata))

\* C11: in every reachable state the metadata mapping holds an entry for a
\* file name only if that file's job was answered "succeeded" and its result
\* was parsed, and what is written to the artifact is the rows of that
\* mapping: no entry for a job that failed, timed out or is still pending.
OnlySucceededStored == [] OnlySucceededRecorded /\ [][OnlyRecordsWritten]_vars

\* C11 witness: an adls2 run uploaded the record of the one file that
\* succeeded while the job of the other had failed.
OnlySucceededWitness ==
    /\ variant = "adls2" /\ pc = "done" /\ uploads = 1
    /\ DictKeys(metadata) = {FA}
    /\ StatusOf(job[FB]) = "failed"

\* C12: a submission the service answers with a non-success status or without
\* a request id ends the job with a SubmissionError, and no status query is
\* issued for that document.
RejectedSubmissionFails ==
    \A f \in AllFiles :
        job[f].post \in {"rejected", "noid"} =>
            /\ job[f].st = "done"
            /\ job[f].out.kind = "error"
            /\ job[f].out.exc = "SubmissionError"
            /\ job[f].polls = 0

\* The number of data rows of a metadata file: its lines past the header.
DataRows(file) == Len(Lines(Text(file))) - HeaderLines

\* A write of the metadata file merges: every file name that was persisted
\* before is still there, every file name of the run is there, and each has
\* one row.
MergeStep ==
    LET before == processed_files(artifact)
        after  == processed_files(artifact')
    IN
    (artifact' # artifact /\ before.exc = "") =>
        /\ after.exc = ""
        /\ before.val[1] \subseteq after.val[1]
        /\ WrittenNames' \subseteq after.val[1]
        /\ DataRows(artifact') = Cardinality(after.val[1])

\* C13: after a batch run the persisted artifact holds the records persisted
\* before the run merged with the records of the run, keyed by file name: no
\* file name persisted before is lost and every file name has one row.
MergeKeyedByName == [][MergeStep]_vars

\* The ascending order of the file names.
Rank(f) == CASE f = FA -> 1 [] f = FB -> 2 [] f = FC -> 3 [] OTHER -> 4

\* The file names of the rows the run wrote, in the order written.
WrittenOrder ==
    LET d == IF variant = "script" THEN result_collection ELSE metadata
    IN  [i \in 1..Len(d) |-> d[i][1]]

\* C14: the rows written are ordered by file name, whatever the order in
\* which the jobs completed (or the new files were listed).
RowsSortedByName ==
    (pc = "done" /\ writes = 1) =>
        \A i \in 1..Len(WrittenOrder) : \A k \in 1..Len(WrittenOrder) :
            i < k => Rank(WrittenOrder[i]) < Rank(WrittenOrder[k])

\* What the claim has column c of f's record hold: the content of the raw
\* field named c when the service extracted one, the empty string otherwise.
ExpectedValue(f, c) ==
    LET raw == RawFields(f) IN
    IF \E i \in 1..Len(raw) : raw[i].name = c /\ raw[i].content # None
    THEN (raw[CHOOSE i \in 1..Len(raw) : raw[i].name = c /\ raw[i].content # None]).content[1]
    ELSE << >>

ExpectedRow(f) ==
    JoinWith(COMMA, << Quoted(f) >> \o [i \in 1..Len(Columns) |-> Quoted(ExpectedValue(f, Columns[i]))])
    \o << LF >>

\* C15: the record written for a file has exactly the four columns, each the
\* content of the raw field of that name when it was extracted and the empty
\* string otherwise, never None; other raw fields do not appear.
ProjectionToSchema ==
    (variant = "script" /\ pc = "done" /\ writes = 1) =>
        \A i \in 1..Len(result_collection) :
            LET f  == result_collection[i][1]
                fv == field_values(result_collection[i][2])
            IN
            /\ DOMAIN fv = SeqToSet(Columns)
            /\ \A c \in DOMAIN fv : fv[c] = Some(ExpectedValue(f, c))
            /\ ScriptRow(f, result_collection[i][2]) = ExpectedRow(f)

\* C16: within one file the submission completes and yields the job handle
\* before the first status query, and status queries are issued only with the
\* handle the service returned for that file's submission.
HandleBeforePoll ==
    \A f \in AllFiles :
        job[f].polls > 0 =>
            /\ job[f].posts = 1
            /\ job[f].post # ""
            /\ job[f].id = Some(f)

\* The mapping of file names to records the batch ends with.
Mapping == IF variant = "script" THEN result_collection ELSE metadata

\* C17: no lost updates.  When the batch has completed, the metadata mapping
\* holds an entry for every file whose job was answered "succeeded" within the
\* attempt budget, whatever the order in which the jobs completed.
NoLostUpdates ==
    (RunEnded /\ AllIn(Batch, "done")) =>
        \A f \in Batch :
            (SucceededAnalysis(f) /\ job[f].polls <= max_retries) => f \in DictKeys(Mapping)

\* C18: the session is closed when the batch has ended, on every path out:
\* normal completion, the early return when no file is found, an exception
\* of a submission, a poll or the parsing of a result.
SessionClosedAtEnd ==
    /\ (RunEnded \/ pc \in {"extracted", "left_submitting", "left_polling"}) => session # "open"
    /\ (RunEnded /\ sessions > 0) => session = "closed"
    /\ sessions <= 1

\* C18 witness: the script's batch was ended by the exception of a poll after
\* another job had returned, and the session is closed.
SessionClosedWitness ==
    /\ variant = "script" /\ pc = "aborted" /\ session = "closed" /\ sessions = 1
    /\ raised = Some("ValueError")
    /\ \E f \in Batch : job[f].out.kind = "result"

\* C19: result attribution.  The record stored under a file name is built
\* from the result of the job submitted for that file, whatever the order in
\* which submissions and polls completed.
ResultAttribution ==
    \A i \in 1..Len(Mapping) :
        LET f == Mapping[i][1] IN
        /\ job[f].id = Some(f)
        /\ job[f].out.kind = "result"
        /\ Mapping[i][2] = ParseResult(job[f].resp.result).val[1]
        /\ Mapping[i][2] = Parsed(f)

\* C19 witness: two files of one batch, the second of the list having
\* completed while the first was still polling, each with its own record.
ResultAttributionWitness ==
    /\ pc = "done"
    /\ DictKeys(Mapping) = {FA, FB}
    /\ job[FA].waits > 0 /\ job[FB].waits = 0

\* Rows reach the two files of the script only in one write, made when every
\* job of the batch was answered "succeeded" and returned, of the rows of the
\* same file names: all those of the batch.
AllOrNothingStep ==
    (variant = "script" /\ (artifact' # artifact \/ partner' # partner)) =>
        /\ \A f \in Batch : StatusOf(job[f]) = "succeeded" /\ job[f].out.kind = "result"
        /\ DictKeys(result_collection') = Batch
        /\ artifact' = Some(Text(artifact) \o ScriptRows(result_collection'))
        /\ partner' = Some(Text(partner) \o PartnerRows(result_collection'))
        /\ writes = 0 /\ writes' = 1

\* A batch that an exception ended, or in which a job has not returned, has
\* written nothing: the metadata file is as the run found it and the partner
\* file was not created.
NothingWritten ==
    ( /\ variant = "script"
      /\ \/ pc \in {"aborted", "crashed", "left_submitting", "left_polling"}
         \/ ~AllReturned ) =>
        /\ writes = 0
        /\ partner = None
        /\ artifact \in ScriptArtifacts

\* C20: process_files writes all or nothing, and the same file names to both
\* files.
AllOrNothing == [] NothingWritten /\ [][AllOrNothingStep]_vars

\* C20 witness: a batch of two files, one of which had to be waited for, was
\* written to both files.
AllOrNothingWitness ==
    /\ variant = "script" /\ pc = "done" /\ writes = 1
    /\ Len(result_collection) = 2
    /\ partner = Some(PartnerRows(result_collection))
    /\ \E f \in Batch : job[f].waits > 0

=============================================================================
